---- MODULE Spec2Model ----
(***************************************************************************)
(* Model of the batch subsystem of agent-browser-py:                       *)
(*   src/src/agent_browser/agent_browser.py  (BatchContext, AgentBrowser)  *)
(*   src/async_agent_browser.py   (AsyncBatchContext, AsyncAgentBrowser)   *)
(*                                                                         *)
(* A batch context accumulates command records; leaving its block calls    *)
(* execute_batch, which renders one script line per command, writes the    *)
(* script to a temporary file, runs it with bash and parses the captured   *)
(* stdout back into a result list.  The external tool and the operating    *)
(* system are the environment: what the script prints, its exit code and   *)
(* whether writing the script or launching bash fails are chosen freely.   *)
(***************************************************************************)
EXTENDS Integers, Sequences, FiniteSets, TLC

(***************************************************************************)
(* Bounds of the model.                                                    *)
(***************************************************************************)
\* longest queue of commands that is built
MaxCmds == 2
\* most lines the script prints on stdout
MaxLines == 2
\* most sessions a listing reports
MaxSessions == 2
\* largest max_retries passed to close_all_sessions
MaxRetries == 2
\* tasks of one event loop that share a controller
MaxTasks == 2
\* executions of one batch context before it is no longer re-entered
MaxRuns == 2


(***************************************************************************)
(* Input domains of the queuing calls.  "" stands for a falsy optional     *)
(* argument (None, empty string or empty dict): the code only tests        *)
(* truthiness.                                                             *)
(***************************************************************************)
Flavors == {"sync", "async"}
Urls == {"https://example.com"}
Selectors == {"@e1"}
Texts == {"hello"}
Keys == {"Enter"}
HeaderArgs == {"", "H"}
PathArgs == {"shot.png"}
PageModes == {"html", "pdf"}
SnapshotFlags == {<<TRUE, FALSE>>}

(***************************************************************************)
(* Lines of the script's stdout.  A line is [kind, id]: id is its line      *)
(* number in the raw stream and identifies its content.  Kinds:            *)
(*   envOK   {"success": true,  "data": D}    D identified by id           *)
(*   envFail {"success": false, "error": E}   E identified by id           *)
(*   dict    a JSON object without a success field, e.g. {"a": 1}          *)
(*   text    a line that is not JSON, e.g. Done                            *)
(*   blank   the empty line                                                *)
(* A line that json.loads rejects is skipped by the synchronous parser and *)
(* kept raw by the asynchronous one whether or not it is brace-shaped, so  *)
(* "text" stands for both shapes.                                          *)
(***************************************************************************)
LineKinds == {"envOK", "envFail", "dict", "text", "blank"}

\* line.startswith("{") and line.endswith("}")
BraceShaped(line) == line.kind \in {"envOK", "envFail", "dict"}
\* json.loads(line) does not raise JSONDecodeError
JsonLoads(line) == line.kind \in {"envOK", "envFail", "dict"}
\* isinstance(data, dict) and "success" in data
HasSuccess(line) == line.kind \in {"envOK", "envFail"}
\* data.get("success") is truthy
SuccessTrue(line) == line.kind = "envOK"
\* not line  (the empty string)
IsEmptyLine(line) == line.kind = "blank"

\* values that appear in result lists and error messages
Val(tag, line) == [tag |-> tag, id |-> line.id]
NoneVal == [tag |-> "None", id |-> 0]
Msg(text) == [tag |-> text, id |-> 0]
\* data.get("data") of an envelope line
DataOf(line) == Val("data", line)
\* data.get("error", "Command failed") of an envelope line
ErrorOf(line) == Val("error", line)

(***************************************************************************)
(* Controller settings and command rendering.                              *)
(***************************************************************************)
\* AgentBrowser() / AsyncAgentBrowser() with every argument at its default
DefaultBrowser ==
    [session |-> "", executable_path |-> "", headers |-> "",
     headed |-> FALSE, debug |-> FALSE, cdp_port |-> 0]

Digit(d) ==
    CASE d = 0 -> "0" [] d = 1 -> "1" [] d = 2 -> "2" [] d = 3 -> "3"
      [] d = 4 -> "4" [] d = 5 -> "5" [] d = 6 -> "6" [] d = 7 -> "7"
      [] d = 8 -> "8" [] d = 9 -> "9"

RECURSIVE Str(_)
\* str(n) for a non-negative int
Str(n) == IF n < 10 THEN Digit(n) ELSE Str(n \div 10) \o Digit(n % 10)

\* json.dumps of the headers dict that "H" stands for, {"X-Test": "1"}
JsonDumps(h) == IF h = "H" THEN "{\"X-Test\": \"1\"}" ELSE "null"

\* dict.get(key, default)
Get(d, key, default) == IF key \in DOMAIN d THEN d[key] ELSE default

\* _build_command with the --debug block placed before the --headed block
BuildCommandDebugFirst(b, args, json_output) ==
    <<"agent-browser">>
    \o (IF b.session # "" THEN <<"--session", b.session>> ELSE <<>>)
    \o (IF b.executable_path # "" THEN <<"--executable-path", b.executable_path>> ELSE <<>>)
    \o (IF b.debug THEN <<"--debug">> ELSE <<>>)
    \o (IF b.headed THEN <<"--headed">> ELSE <<>>)
    \o (IF b.cdp_port # 0 THEN <<"--cdp", Str(b.cdp_port)>> ELSE <<>>)
    \o (IF json_output THEN <<"--json">> ELSE <<>>)
    \o args

\* _build_command(*args, json_output=...), the same in both controllers
BuildCommand(b, args, json_output) ==
    <<"agent-browser">>
    \o (IF b.session # "" THEN <<"--session", b.session>> ELSE <<>>)
    \o (IF b.executable_path # "" THEN <<"--executable-path", b.executable_path>> ELSE <<>>)
    \o (IF b.headed THEN <<"--headed">> ELSE <<>>)
    \o (IF b.debug THEN <<"--debug">> ELSE <<>>)
    \o (IF b.cdp_port # 0 THEN <<"--cdp", Str(b.cdp_port)>> ELSE <<>>)
    \o (IF json_output THEN <<"--json">> ELSE <<>>)
    \o args

\* the per-command branch of AgentBrowser.execute_batch: cmd_parts
SyncCmdParts(b, cmd) ==
    LET method == cmd.method
        args == Get(cmd, "args", <<>>)
        kwargs == Get(cmd, "kwargs", <<>>)
        json_output == Get(kwargs, "json_output", FALSE)
    IN  IF method = "get" THEN BuildCommand(b, <<"get">> \o args, json_output)
        ELSE IF method = "eval" THEN BuildCommand(b, <<"eval">> \o args, json_output)
        ELSE IF method = "snapshot" THEN
            BuildCommand(b,
                <<"snapshot">>
                \o (IF Get(kwargs, "interactive_only", FALSE) THEN <<"-i">> ELSE <<>>)
                \o (IF Get(kwargs, "compact", FALSE) THEN <<"-c">> ELSE <<>>),
                json_output)
        ELSE IF method = "open" /\ "headers" \in DOMAIN kwargs THEN
            BuildCommand(b, <<method>> \o args, FALSE)
            \o <<"--headers", JsonDumps(kwargs["headers"])>>
        ELSE BuildCommand(b, <<method>> \o args, json_output)

\* the per-command branch of AsyncAgentBrowser.execute_batch: cmd_parts
AsyncCmdParts(b, cmd) ==
    LET method == cmd.method
        args == Get(cmd, "args", <<>>)
        kwargs == Get(cmd, "kwargs", <<>>)
        json_flag == Get(kwargs, "json_output", FALSE)
        sess == IF b.session # "" THEN <<"--session", b.session>> ELSE <<>>
    IN  IF method = "get" THEN BuildCommand(b, <<"get">> \o args, json_flag)
        ELSE IF method = "snapshot" THEN
            <<"agent-browser">> \o sess \o <<"snapshot">>
            \o (IF Get(kwargs, "interactive_only", FALSE) THEN <<"--interactive-only">> ELSE <<>>)
            \o (IF Get(kwargs, "compact", FALSE) THEN <<"--compact">> ELSE <<>>)
            \o <<"--json">>
        ELSE IF method = "open" THEN
            <<"agent-browser">> \o sess \o <<"open">> \o args
            \o (IF Get(kwargs, "headers", "") # ""
                THEN <<"--headers", JsonDumps(kwargs["headers"])>> ELSE <<>>)
        ELSE BuildCommand(b, <<method>> \o args, FALSE)

CmdParts(fl, b, cmd) ==
    IF fl = "sync" THEN SyncCmdParts(b, cmd) ELSE AsyncCmdParts(b, cmd)

\* the token lists of the script's command lines, after the two preamble lines
ScriptCommands(fl, b, cmds) == [i \in 1..Len(cmds) |-> CmdParts(fl, b, cmds[i])]

\* json_indices of AgentBrowser.execute_batch (positions are 1-based here)
RECURSIVE JsonIndices(_, _)
JsonIndices(cmds, idx) ==
    IF idx > Len(cmds) THEN <<>>
    ELSE (IF Get(Get(cmds[idx], "kwargs", <<>>), "json_output", FALSE)
          THEN <<idx>> ELSE <<>>) \o JsonIndices(cmds, idx + 1)

(***************************************************************************)
(* Result reconstruction.                                                  *)
(***************************************************************************)
Returned(v) == [status |-> "returned", value |-> v, errtype |-> "", errmsg |-> NoneVal]
Raised(t, m) == [status |-> "raised", value |-> <<>>, errtype |-> t, errmsg |-> m]
NoCall == [status |-> "none", value |-> <<>>, errtype |-> "", errmsg |-> NoneVal]

RECURSIVE LStrip(_)
LStrip(out) ==
    IF out # <<>> /\ IsEmptyLine(Head(out)) THEN LStrip(Tail(out)) ELSE out

RECURSIVE RStrip(_)
RStrip(out) ==
    IF out # <<>> /\ IsEmptyLine(out[Len(out)])
    THEN RStrip(SubSeq(out, 1, Len(out) - 1)) ELSE out

\* the lines of output.strip(): leading and trailing empty lines are gone
Strip(out) == RStrip(LStrip(out))

\* "".split("\n") == [""]
EmptyLine == [kind |-> "blank", id |-> 0]
SplitLines(out) == IF Strip(out) = <<>> THEN <<EmptyLine>> ELSE Strip(out)

RECURSIVE SyncScan(_, _, _)
\* first loop of _parse_batch_results: collect json_results or raise
SyncScan(lines, n, json_results) ==
    IF n > Len(lines)
    THEN [raised |-> FALSE, err |-> NoneVal, json_results |-> json_results]
    ELSE LET line == lines[n] IN
         IF BraceShaped(line) /\ JsonLoads(line) /\ HasSuccess(line)
         THEN IF ~SuccessTrue(line)
              THEN [raised |-> TRUE, err |-> ErrorOf(line), json_results |-> json_results]
              ELSE SyncScan(lines, n + 1, Append(json_results, DataOf(line)))
         ELSE SyncScan(lines, n + 1, json_results)

RECURSIVE SyncAssignStuck(_, _, _, _, _)
\* the second loop without json_idx += 1
SyncAssignStuck(results, json_indices, k, json_results, json_idx) ==
    IF k > Len(json_indices) THEN results
    ELSE IF json_idx <= Len(json_results)
         THEN SyncAssignStuck([results EXCEPT ![json_indices[k]] = json_results[json_idx]],
                              json_indices, k + 1, json_results, json_idx)
         ELSE SyncAssignStuck(results, json_indices, k + 1, json_results, json_idx)

RECURSIVE SyncAssign(_, _, _, _, _)
\* second loop of _parse_batch_results: results[i] = json_results[json_idx]
SyncAssign(results, json_indices, k, json_results, json_idx) ==
    IF k > Len(json_indices) THEN results
    ELSE IF json_idx <= Len(json_results)
         THEN SyncAssign([results EXCEPT ![json_indices[k]] = json_results[json_idx]],
                         json_indices, k + 1, json_results, json_idx + 1)
         ELSE SyncAssign(results, json_indices, k + 1, json_results, json_idx)

\* _parse_batch_results returning json_results itself instead of the padded list
ParseBatchResultsUnpadded(output, json_indices, total_commands) ==
    LET lines == IF Strip(output) # <<>> THEN Strip(output) ELSE <<>>
        scan == SyncScan(lines, 1, <<>>)
    IN  IF scan.raised THEN Raised("AgentBrowserError", scan.err)
        ELSE Returned(scan.json_results)

\* AgentBrowser._parse_batch_results(output, json_indices, total_commands)
ParseBatchResults(output, json_indices, total_commands) ==
    LET lines == IF Strip(output) # <<>> THEN Strip(output) ELSE <<>>
        scan == SyncScan(lines, 1, <<>>)
    IN  IF scan.raised THEN Raised("AgentBrowserError", scan.err)
        ELSE Returned(SyncAssign([i \in 1..total_commands |-> NoneVal],
                                 json_indices, 1, scan.json_results, 1))

RECURSIVE AsyncScanWholeEnvelope(_, _, _)
\* the parsing loop appending the envelope itself instead of data.get("data")
AsyncScanWholeEnvelope(lines, n, results) ==
    IF n > Len(lines) THEN Returned(results)
    ELSE LET line == lines[n] IN
         IF IsEmptyLine(line) THEN AsyncScanWholeEnvelope(lines, n + 1, results)
         ELSE IF JsonLoads(line)
         THEN IF HasSuccess(line)
              THEN IF ~SuccessTrue(line)
                   THEN Raised("AgentBrowserError", ErrorOf(line))
                   ELSE AsyncScanWholeEnvelope(lines, n + 1,
                                               Append(results, Val("json", line)))
              ELSE AsyncScanWholeEnvelope(lines, n + 1, Append(results, Val("json", line)))
         ELSE AsyncScanWholeEnvelope(lines, n + 1, Append(results, Val("line", line)))

RECURSIVE AsyncScan(_, _, _)
\* the parsing loop of AsyncAgentBrowser.execute_batch
AsyncScan(lines, n, results) ==
    IF n > Len(lines) THEN Returned(results)
    ELSE LET line == lines[n] IN
         IF IsEmptyLine(line) THEN AsyncScan(lines, n + 1, results)
         ELSE IF JsonLoads(line)
         THEN IF HasSuccess(line)
              THEN IF ~SuccessTrue(line)
                   THEN Raised("AgentBrowserError", ErrorOf(line))
                   ELSE AsyncScan(lines, n + 1, Append(results, DataOf(line)))
              ELSE AsyncScan(lines, n + 1, Append(results, Val("json", line)))
         ELSE AsyncScan(lines, n + 1, Append(results, Val("line", line)))

AsyncParseResults(output) == AsyncScan(SplitLines(output), 1, <<>>)

(***************************************************************************)
(* The environment of one execute_batch call.                              *)
(***************************************************************************)
\* rc when no process ran to completion
NoRc == -1
ExitCodes == {0, 1}

\* every stdout of at most MaxLines lines
Stdouts ==
    UNION {{[i \in 1..l |-> [kind |-> k[i], id |-> i]] : k \in [1..l -> LineKinds]} :
              l \in 0..MaxLines}

\* stdout of a script that exits non-zero.  execute_batch never reads it, so
\* three representatives stand for all of them: nothing, the success envelope
\* of a step that ran before the failure, and a failure envelope.
AbortedStdouts ==
    {<<>>, <<[kind |-> "envOK", id |-> 1]>>, <<[kind |-> "envFail", id |-> 1]>>}

\* the script cannot be written, or bash cannot be launched
OsFailures ==
    {[write |-> "failed", launch |-> "none", rc |-> NoRc, stdout |-> <<>>],
     [write |-> "ok", launch |-> "failed", rc |-> NoRc, stdout |-> <<>>]}

\* a script of only the two preamble lines prints nothing and exits 0
PreambleRun == [write |-> "ok", launch |-> "ok", rc |-> 0, stdout |-> <<>>]

\* a script with at least one command line runs to an exit code
ScriptRuns ==
    {[write |-> "ok", launch |-> "ok", rc |-> 0, stdout |-> o] : o \in Stdouts}
    \cup {[write |-> "ok", launch |-> "ok", rc |-> c, stdout |-> o] :
              c \in ExitCodes \ {0}, o \in AbortedStdouts}

\* os.unlink of the script fails after bash could not be launched, or after
\* the script ran; the stdouts are the representatives of AbortedStdouts
UnlinkFailures ==
    {[write |-> "ok", launch |-> "failed", rc |-> NoRc, stdout |-> <<>>,
      unlink |-> "failed"]}
    \cup {[write |-> "ok", launch |-> "ok", rc |-> c, stdout |-> o, unlink |-> "failed"] :
              c \in ExitCodes, o \in AbortedStdouts}

\* what the operating system and the script do during one call on n commands
Envs(n) ==
    OsFailures
    \cup (IF n = 0
          THEN {PreambleRun,
                [write |-> "ok", launch |-> "ok", rc |-> 0, stdout |-> <<>>,
                 unlink |-> "failed"]}
          ELSE ScriptRuns \cup UnlinkFailures)

(***************************************************************************)
(* execute_batch.  The result record holds what the caller observes        *)
(* (outcome), the number of subprocess launches attempted (launches), the  *)
(* state of the temporary script file afterwards (tmp) and what the        *)
(* process produced (stdout, rc).                                          *)
(***************************************************************************)
Call(o, l, t, out, c) ==
    [outcome |-> o, launches |-> l, tmp |-> t, stdout |-> out, rc |-> c]

\* the part of execute_batch from NamedTemporaryFile on, up to the parser
RunScript(cmds, env, parsed) ==
    IF env.write = "failed"
    THEN Call(Raised("OSError", Msg("write failed")), 0, "present", <<>>, NoRc)
    ELSE IF env.launch = "failed"
    THEN Call(Raised("OSError", Msg("launch failed")), 1, "removed", <<>>, NoRc)
    ELSE IF env.rc # 0
    THEN Call(Raised("AgentBrowserError", Msg("Batch execution failed: stderr")),
              1, "removed", env.stdout, env.rc)
    ELSE Call(parsed, 1, "removed", env.stdout, env.rc)

\* os.unlink(script_path) raises
UnlinkFails(env) == Get(env, "unlink", "ok") = "failed"

\* the finally clause of AgentBrowser.execute_batch after a try block that
\* ended as r: an error of os.unlink leaves the call in place of r's outcome
SyncFinally(env, r) ==
    IF env.write = "ok" /\ UnlinkFails(env)
    THEN Call(Raised("OSError", Msg("unlink failed")), r.launches, "present",
              r.stdout, r.rc)
    ELSE r

\* the finally clause of AsyncAgentBrowser.execute_batch: an error of
\* os.unlink is caught and dropped
AsyncFinally(env, r) ==
    IF env.write = "ok" /\ UnlinkFails(env) THEN [r EXCEPT !.tmp = "present"] ELSE r

\* AgentBrowser.execute_batch(commands)
SyncExecuteBatch(b, cmds, env) ==
    IF cmds = <<>> THEN Call(Returned(<<>>), 0, "absent", <<>>, NoRc)
    ELSE SyncFinally(env,
            RunScript(cmds, env,
               ParseBatchResults(env.stdout, JsonIndices(cmds, 1), Len(cmds))))

\* AsyncAgentBrowser.execute_batch(commands)
AsyncExecuteBatch(b, cmds, env) ==
    AsyncFinally(env, RunScript(cmds, env, AsyncParseResults(env.stdout)))

ExecuteBatch(fl, b, cmds, env) ==
    IF fl = "sync" THEN SyncExecuteBatch(b, cmds, env)
    ELSE AsyncExecuteBatch(b, cmds, env)

(***************************************************************************)
(* Single commands: _run.  The stdout of one invocation is one value       *)
(* [kind, id]; id identifies its content.  Kinds:                          *)
(*   empty    nothing was printed                                          *)
(*   ws       only whitespace, e.g. a newline                              *)
(*   envOK    {"success": true,  "data": D}                                *)
(*   envFail  {"success": false, "error": E}                               *)
(*   dict     a JSON object without a success field, e.g. {"a": 1}         *)
(*   nonobj   JSON that is not an object, e.g. [1] or null                 *)
(*   text     anything json.loads rejects, e.g. Done                       *)
(***************************************************************************)
OutKinds == {"empty", "ws", "envOK", "envFail", "dict", "nonobj", "text"}
Out(kind) == [kind |-> kind, id |-> 1]

\* bool(stdout): the string is not empty
NonEmpty(out) == out.kind # "empty"
\* bool(stdout.strip())
NonBlank(out) == out.kind \notin {"empty", "ws"}
\* json.loads(stdout) does not raise JSONDecodeError
Decodes(out) == out.kind \in {"envOK", "envFail", "dict", "nonobj"}
\* the decoded value has a get method: it is a dict
IsObject(out) == out.kind \in {"envOK", "envFail", "dict"}
\* data.get("error", "Unknown error")
ErrorField(out) == IF out.kind = "envFail" THEN ErrorOf(out) ELSE Msg("Unknown error")
\* stdout.strip() as a returned string
Stripped(out) == IF NonBlank(out) THEN Val("text", out) ELSE Msg("")

\* what one external invocation does: the launch fails, or the process runs
\* to an exit code and leaves its stdout
RunEnvs ==
    {[launch |-> "failed", rc |-> NoRc, out |-> Out("empty")]}
    \cup {[launch |-> "ok", rc |-> c, out |-> Out(k)] : c \in ExitCodes, k \in OutKinds}

\* the decoding without the test of the success field
DecodeEnvelopeUnchecked(out, wrap) ==
    IF ~Decodes(out)
    THEN Raised("AgentBrowserError", Msg("Failed to parse JSON output"))
    ELSE IF ~IsObject(out)
    THEN (IF wrap THEN Raised("AgentBrowserError", Msg("Command execution failed"))
          ELSE Raised("AttributeError", Msg("no attribute get")))
    ELSE IF out.kind = "envOK" THEN Returned(DataOf(out)) ELSE Returned(NoneVal)

\* the json_output branch shared by both _run methods, once stdout is known
\* to hold something: decode the envelope, then return data or raise
DecodeEnvelope(out, wrap) ==
    IF ~Decodes(out)
    THEN Raised("AgentBrowserError", Msg("Failed to parse JSON output"))
    ELSE IF ~IsObject(out)
    THEN (IF wrap THEN Raised("AgentBrowserError", Msg("Command execution failed"))
          ELSE Raised("AttributeError", Msg("no attribute get")))
    ELSE IF out.kind # "envOK"
    THEN Raised("AgentBrowserError", ErrorField(out))
    ELSE Returned(DataOf(out))

\* AgentBrowser._run(*args, json_output, check): the outcome the caller sees
SyncRun(b, args, json_output, check, env) ==
    IF env.launch = "failed" THEN Raised("FileNotFoundError", Msg("launch failed"))
    ELSE IF check /\ env.rc # 0
    THEN Raised("AgentBrowserError", Msg("Command failed: stderr"))
    ELSE IF json_output /\ NonEmpty(env.out)
    THEN DecodeEnvelope(env.out, FALSE)
    ELSE IF NonEmpty(env.out) THEN Returned(Stripped(env.out)) ELSE Returned(NoneVal)

\* AsyncAgentBrowser._run(*args, json_output, check)
AsyncRun(b, args, json_output, check, env) ==
    IF env.launch = "failed"
    THEN Raised("AgentBrowserError", Msg("Command execution failed"))
    ELSE IF check /\ env.rc # 0
    THEN Raised("AgentBrowserError", Msg("Command failed: stderr"))
    ELSE IF json_output /\ NonBlank(env.out)
    THEN DecodeEnvelope(env.out, TRUE)
    ELSE IF NonBlank(env.out) THEN Returned(Stripped(env.out)) ELSE Returned(NoneVal)

RunOutcome(fl, b, args, json_output, check, env) ==
    IF fl = "sync" THEN SyncRun(b, args, json_output, check, env)
    ELSE AsyncRun(b, args, json_output, check, env)

(***************************************************************************)
(* Session listing.  The stdout of the listing subcommand is               *)
(* [kind, sessions]:                                                       *)
(*   envList      {"success": true, "data": [names]}                       *)
(*   envSessions  {"success": true, "data": {"sessions": [names]}}         *)
(*   envFail      {"success": false, "error": E}                           *)
(*   empty, text, nonobj  as for single commands                           *)
(***************************************************************************)
SessionNames == {"s1", "s2"}
SessionLists == UNION {[1..l -> SessionNames] : l \in 0..MaxSessions}

ListOuts ==
    {[kind |-> k, sessions |-> <<>>] : k \in {"empty", "text", "nonobj", "envFail"}}
    \cup {[kind |-> k, sessions |-> n] : k \in {"envList", "envSessions"}, n \in SessionLists}

\* a listing that exits non-zero is never read: two outputs stand for all
ListEnvs ==
    {[launch |-> "failed", rc |-> NoRc, out |-> [kind |-> "empty", sessions |-> <<>>]]}
    \cup {[launch |-> "ok", rc |-> 0, out |-> o] : o \in ListOuts}
    \cup {[launch |-> "ok", rc |-> c, out |-> o] :
              c \in ExitCodes \ {0},
              o \in {[kind |-> "empty", sessions |-> <<>>],
                     [kind |-> "envList", sessions |-> <<"s1">>]}}

\* returned values: a list, a dict (items is what iterating it yields: its
\* keys), a count
ListVal(names) == [type |-> "list", items |-> names]
DictVal(names) == [type |-> "dict", items |-> <<"sessions">>]
Count(n) == [tag |-> "int", id |-> n]

\* the command line of the listing
ListCmd(fl) ==
    IF fl = "sync" THEN <<"agent-browser", "session", "list", "--json">>
    ELSE <<"agent-browser", "sessions", "--json">>

\* AgentBrowser.list_sessions()
SyncListSessions(env) ==
    IF env.launch = "failed" THEN Raised("FileNotFoundError", Msg("launch failed"))
    ELSE IF env.rc = 0 /\ env.out.kind # "empty"
    THEN CASE env.out.kind = "text" -> Returned(ListVal(<<>>))
           [] env.out.kind = "nonobj" -> Raised("AttributeError", Msg("no attribute get"))
           [] env.out.kind = "envFail" -> Returned(ListVal(<<>>))
           [] env.out.kind = "envList" -> Raised("AttributeError", Msg("no attribute get"))
           [] env.out.kind = "envSessions" -> Returned(ListVal(env.out.sessions))
    ELSE Returned(ListVal(<<>>))

\* AsyncAgentBrowser.list_sessions()
AsyncListSessions(env) ==
    IF env.launch = "failed" THEN Raised("FileNotFoundError", Msg("launch failed"))
    ELSE IF env.rc = 0 /\ env.out.kind # "empty"
    THEN CASE env.out.kind = "text" -> Returned(ListVal(<<>>))
           [] env.out.kind = "nonobj" -> Raised("AttributeError", Msg("no attribute get"))
           [] env.out.kind = "envFail" -> Returned(ListVal(<<>>))
           [] env.out.kind = "envList" -> Returned(ListVal(env.out.sessions))
           [] env.out.kind = "envSessions" -> Returned(DictVal(env.out.sessions))
    ELSE Returned(ListVal(<<>>))

ListSessionsOutcome(fl, env) ==
    IF fl = "sync" THEN SyncListSessions(env) ELSE AsyncListSessions(env)

(***************************************************************************)
(* The script file, character by character.  A text is a sequence of       *)
(* atoms: an atom is one of the characters the shell or the quoting code   *)
(* looks at (space, tab, newline, double quote) or a run of other           *)
(* characters.  Spell gives the text of a token.                            *)
(***************************************************************************)
Spell(tok) ==
    CASE tok = "two words" -> <<"two", " ", "words">>
      [] tok = "tab\there" -> <<"tab", "\t", "here">>
      [] tok = "say\"hi" -> <<"say", "\"", "hi">>
      [] tok = "line1\nline2" -> <<"line1", "\n", "line2">>
      [] tok = "{\"X-Test\": \"1\"}" ->
            <<"{", "\"", "X-Test", "\"", ":", " ", "\"", "1", "\"", "}">>
      [] tok = "set -e" -> <<"set", " ", "-e">>
      [] OTHER -> <<tok>>

\* " " in str(part)
HasSpace(text) == \E i \in 1..Len(text) : text[i] = " "
\* f'"{part}"'
Quoted(text) == <<"\"">> \o text \o <<"\"">>

RECURSIVE Join(_, _)
\* sep.join(texts)
Join(texts, sep) ==
    IF texts = <<>> THEN <<>>
    ELSE IF Len(texts) = 1 THEN texts[1]
    ELSE texts[1] \o sep \o Join(Tail(texts), sep)

\* escaped_cmd of AgentBrowser.execute_batch: a part is quoted if it holds a space
SyncLine(parts) ==
    Join([k \in 1..Len(parts) |->
            IF HasSpace(Spell(parts[k])) THEN Quoted(Spell(parts[k])) ELSE Spell(parts[k])],
         <<" ">>)

\* the line AsyncAgentBrowser.execute_batch appends: every part is quoted
AsyncLine(parts) ==
    Join([k \in 1..Len(parts) |-> Quoted(Spell(parts[k]))], <<" ">>)

\* script_lines: the preamble, then one entry per command
ScriptLines(fl, b, cmds) ==
    <<Spell("#!/bin/bash"), Spell("set -e")>>
    \o [k \in 1..Len(cmds) |->
          IF fl = "sync" THEN SyncLine(SyncCmdParts(b, cmds[k]))
          ELSE AsyncLine(AsyncCmdParts(b, cmds[k]))]

\* "\n".join(script_lines), the content written to the temporary file
ScriptText(fl, b, cmds) == Join(ScriptLines(fl, b, cmds), <<"\n">>)

\* the number of lines of a text
LineCount(text) == 1 + Cardinality({i \in 1..Len(text) : text[i] = "\n"})

(***************************************************************************)
(* bash reading the script.  Outside double quotes a space or a tab ends a *)
(* word and a newline ends a command; a double quote opens a quoted part   *)
(* of a word that runs, newlines included, to the next double quote.  If   *)
(* the file ends inside a quoted part, bash reports a syntax error         *)
(* when it reaches the command that holds it, after running the commands   *)
(* before it.  The state of the reader: the commands read so far (cmds),   *)
(* the words of the command being read (words), the word being read (word, *)
(* if inword), and whether it is inside double quotes.                     *)
(***************************************************************************)
RECURSIVE ShellRead(_, _, _)
ShellRead(text, i, st) ==
    LET flushed == IF st.inword THEN Append(st.words, st.word) ELSE st.words IN
    IF i > Len(text)
    THEN IF st.quoted THEN [ok |-> FALSE, cmds |-> st.cmds]
         ELSE [ok |-> TRUE,
               cmds |-> IF flushed # <<>> THEN Append(st.cmds, flushed) ELSE st.cmds]
    ELSE LET a == text[i] IN
         IF st.quoted
         THEN IF a = "\""
              THEN ShellRead(text, i + 1, [st EXCEPT !.quoted = FALSE])
              ELSE ShellRead(text, i + 1, [st EXCEPT !.word = Append(@, a)])
         ELSE IF a = "\""
              THEN ShellRead(text, i + 1, [st EXCEPT !.quoted = TRUE, !.inword = TRUE])
         ELSE IF a \in {" ", "\t"}
              THEN ShellRead(text, i + 1,
                       [st EXCEPT !.words = flushed, !.word = <<>>, !.inword = FALSE])
         ELSE IF a = "\n"
              THEN ShellRead(text, i + 1,
                       [st EXCEPT !.cmds = IF flushed # <<>> THEN Append(@, flushed) ELSE @,
                                  !.words = <<>>, !.word = <<>>, !.inword = FALSE])
         ELSE ShellRead(text, i + 1, [st EXCEPT !.word = Append(@, a), !.inword = TRUE])

\* the commands bash reads from a script file, each a list of words
ShellCommands(text) ==
    ShellRead(text, 1, [cmds |-> <<>>, words |-> <<>>, word |-> <<>>,
                        inword |-> FALSE, quoted |-> FALSE])

(***************************************************************************)
(* State.                                                                  *)
(***************************************************************************)
VARIABLES
    flavor,       \* "sync": AgentBrowser + BatchContext, "async": the async pair
    browser,      \* the controller's settings
    commands,     \* ctx.commands
    results,      \* ctx.results
    phase,        \* "idle" before any use of the controller, "block" inside the
                  \* with-block of a batch context ("block_raised" once a call
                  \* in it raised), then how the block was left: "exited",
                  \* "exited_error"; "called" after a direct execute_batch call
    last_ret,     \* what the last queuing call returned: "self", or what it raised
    exit_ret,     \* what __exit__ returned: "False", or "raised" if it propagated
    call_cmds,    \* the list passed to the last execute_batch call
    outcome,      \* outcome of the last execute_batch call
    stdout,       \* captured stdout of the last script run
    rc,           \* exit code of the last script run
    launches,     \* subprocess launches attempted so far
    tmp,          \* temporary script file: "absent", "present" or "removed"
    auto_close,   \* the auto_close argument given to the constructor
    pc,           \* position of the caller of the controller: "init" before a
                  \* controller is constructed, "new" once it is, then what
                  \* was called last; the "cas_..." values are the positions
                  \* inside close_all_sessions
    call,         \* arguments of the last call of a controller method
    proc,         \* what the last external invocation did: launch, rc, out
    ret,          \* outcome of the last call of a controller method
    invoked,      \* the command lines launched by the call in progress (for
                  \* close_all_sessions: by its current sweep), in order
    cas,          \* the local variables of close_all_sessions
    tasks,        \* the caller's tasks that await a method of the one
                  \* controller: where each is in _run and what it got
    script,       \* the text of the temporary script file
    sh            \* the bash process running the script: the commands it
                  \* read, the next one to run, whether errexit is on, the
                  \* invocations of the tool it made and their exit codes

\* the state of a batch
batchVars == <<commands, results, phase, last_ret, exit_ret,
               call_cmds, outcome, stdout, rc, launches, tmp>>
\* the state of single calls on the controller
ctlVars == <<auto_close, pc, call, proc, ret, invoked, cas, tasks>>

\* the script file and the process that runs it
shellVars == <<script, sh>>

vars == <<flavor, browser, commands, results, phase, last_ret, exit_ret,
          call_cmds, outcome, stdout, rc, launches, tmp,
          auto_close, pc, call, proc, ret, invoked, cas, tasks, script, sh>>

\* no batch has been started
BatchInit ==
    /\ commands = <<>>
    /\ results = <<>>
    /\ phase = "idle"
    /\ last_ret = "none"
    /\ exit_ret = "none"
    /\ call_cmds = <<>>
    /\ outcome = NoCall
    /\ stdout = <<>>
    /\ rc = NoRc
    /\ launches = 0
    /\ tmp = "absent"

NoArgs == [op |-> "none"]
NoProc == [launch |-> "none", rc |-> NoRc, out |-> [kind |-> "empty", id |-> 0]]
NoSweep == [max_retries |-> 0, attempt |-> 0, sessions |-> <<>>, idx |-> 0,
            closed_count |-> 0, outcomes |-> <<>>, sleeps |-> 0, listed |-> {},
            swept |-> 0]

\* no method of the controller has been called; p is the caller's position
\* a task that has not called anything yet
NoTask == [pc |-> "idle", call |-> NoArgs, cmd |-> <<>>, ret |-> NoCall]

CtlInit(p) ==
    /\ tasks = [t \in 1..MaxTasks |-> NoTask]
    /\ auto_close = TRUE
    /\ pc = p
    /\ call = NoArgs
    /\ proc = NoProc
    /\ ret = NoCall
    /\ invoked = <<>>
    /\ cas = NoSweep

\* no script has been written, no bash is running
NoShell == [pc |-> "none", ok |-> TRUE, cmds |-> <<>>, next |-> 0, errexit |-> FALSE,
            runs |-> <<>>, status |-> 0, rc |-> NoRc]
ShellInit == script = <<>> /\ sh = NoShell

\* a controller has been constructed with every argument at its default
Init ==
    /\ flavor \in Flavors
    /\ browser = DefaultBrowser
    /\ BatchInit
    /\ CtlInit("new")
    /\ ShellInit

\* with browser.batch() as b:  -- batch(), __init__ and __enter__
Batch ==
    /\ phase = "idle"
    /\ phase' = "block"
    /\ commands' = <<>>
    /\ results' = <<>>
    /\ UNCHANGED <<flavor, browser, last_ret, exit_ret, call_cmds, outcome,
                   stdout, rc, launches, tmp>>
    /\ UNCHANGED ctlVars
    /\ UNCHANGED shellVars

(***************************************************************************)
(* Queuing methods of BatchContext / AsyncBatchContext.                    *)
(***************************************************************************)
\* self.commands.insert(0, cmd); return self
EnqueueFront(cmd) ==
    /\ phase = "block"
    /\ Len(commands) < MaxCmds
    /\ commands' = <<cmd>> \o commands
    /\ last_ret' = "self"
    /\ UNCHANGED <<flavor, browser, results, phase, exit_ret, call_cmds, outcome,
                   stdout, rc, launches, tmp>>
    /\ UNCHANGED ctlVars
    /\ UNCHANGED shellVars

\* self.commands.append(cmd); return self
Enqueue(cmd) ==
    /\ phase = "block"
    /\ Len(commands) < MaxCmds
    /\ commands' = Append(commands, cmd)
    /\ last_ret' = "self"
    /\ UNCHANGED <<flavor, browser, results, phase, exit_ret, call_cmds, outcome,
                   stdout, rc, launches, tmp>>
    /\ UNCHANGED ctlVars
    /\ UNCHANGED shellVars

Open ==
    \E url \in Urls, headers \in HeaderArgs :
        Enqueue(IF headers # ""
                THEN [method |-> "open", args |-> <<url>>, kwargs |-> [headers |-> headers]]
                ELSE [method |-> "open", args |-> <<url>>])

Click == \E selector \in Selectors : Enqueue([method |-> "click", args |-> <<selector>>])

Fill ==
    \E selector \in Selectors, text \in Texts :
        Enqueue([method |-> "fill", args |-> <<selector, text>>])

Type ==
    \E selector \in Selectors, text \in Texts :
        Enqueue([method |-> "type", args |-> <<selector, text>>])

Press == \E key \in Keys : Enqueue([method |-> "press", args |-> <<key>>])

Hover == \E selector \in Selectors : Enqueue([method |-> "hover", args |-> <<selector>>])

Wait == \E selector_or_ms \in Selectors : Enqueue([method |-> "wait", args |-> <<selector_or_ms>>])

GetTitle ==
    Enqueue([method |-> "get", args |-> <<"title">>, kwargs |-> [json_output |-> TRUE]])

GetUrl ==
    Enqueue([method |-> "get", args |-> <<"url">>, kwargs |-> [json_output |-> TRUE]])

GetText ==
    \E selector \in Selectors :
        Enqueue([method |-> "get", args |-> <<"text", selector>>,
                 kwargs |-> [json_output |-> TRUE]])

\* BatchContext.get_page; AsyncBatchContext has no such method
GetPage ==
    /\ flavor = "sync"
    /\ \E mode \in PageModes :
        IF mode \in {"html", "text"}
        THEN Enqueue([method |-> "eval",
                      args |-> <<IF mode = "html"
                                 THEN "document.documentElement.outerHTML"
                                 ELSE "document.body.innerText">>,
                      kwargs |-> [json_output |-> TRUE]])
        ELSE /\ phase = "block"
             /\ phase' = "block_raised"
             /\ last_ret' = "ValueError"
             /\ UNCHANGED <<flavor, browser, commands, results, exit_ret, call_cmds,
                            outcome, stdout, rc, launches, tmp>>
             /\ UNCHANGED ctlVars
             /\ UNCHANGED shellVars

Screenshot ==
    \E path \in PathArgs :
        Enqueue([method |-> "screenshot",
                 args |-> IF path # "" THEN <<path>> ELSE <<>>])

Snapshot ==
    \E f \in SnapshotFlags :
        LET interactive_only == f[1]
            compact == f[2]
        IN  Enqueue([method |-> "snapshot", args |-> <<>>,
                     kwargs |-> IF interactive_only \/ compact
                                THEN [json_output |-> TRUE,
                                      interactive_only |-> interactive_only,
                                      compact |-> compact]
                                ELSE [json_output |-> TRUE]])

(***************************************************************************)
(* Leaving the block, and calling execute_batch directly.                  *)
(***************************************************************************)
\* __exit__ without the test of self.commands
ExitNormalUnguarded ==
    /\ phase = "block"
    /\ phase' = "exited"
    /\ \E env \in Envs(Len(commands)) :
          LET r == ExecuteBatch(flavor, browser, commands, env) IN
          /\ call_cmds' = commands
          /\ outcome' = r.outcome
          /\ stdout' = r.stdout
          /\ rc' = r.rc
          /\ launches' = launches + r.launches
          /\ tmp' = r.tmp
          /\ IF r.outcome.status = "returned"
             THEN results' = r.outcome.value /\ exit_ret' = "False"
             ELSE results' = results /\ exit_ret' = "raised"
    /\ UNCHANGED <<flavor, browser, commands, last_ret>>
    /\ UNCHANGED ctlVars
    /\ UNCHANGED shellVars

\* __exit__ / __aexit__ with exc_type None
ExitNormal ==
    /\ phase = "block"
    /\ phase' = "exited"
    /\ IF commands # <<>>
       THEN \E env \in Envs(Len(commands)) :
              LET r == ExecuteBatch(flavor, browser, commands, env) IN
              /\ call_cmds' = commands
              /\ outcome' = r.outcome
              /\ stdout' = r.stdout
              /\ rc' = r.rc
              /\ launches' = launches + r.launches
              /\ tmp' = r.tmp
              /\ IF r.outcome.status = "returned"
                 THEN results' = r.outcome.value /\ exit_ret' = "False"
                 ELSE results' = results /\ exit_ret' = "raised"
       ELSE /\ exit_ret' = "False"
            /\ UNCHANGED <<results, call_cmds, outcome, stdout, rc, launches, tmp>>
    /\ UNCHANGED <<flavor, browser, commands, last_ret>>
    /\ UNCHANGED ctlVars
    /\ UNCHANGED shellVars

\* __exit__ without the test of exc_type
ExitErrorRuns ==
    /\ phase \in {"block", "block_raised"}
    /\ phase' = "exited_error"
    /\ IF commands # <<>>
       THEN \E env \in Envs(Len(commands)) :
              LET r == ExecuteBatch(flavor, browser, commands, env) IN
              /\ call_cmds' = commands
              /\ outcome' = r.outcome
              /\ stdout' = r.stdout
              /\ rc' = r.rc
              /\ launches' = launches + r.launches
              /\ tmp' = r.tmp
              /\ IF r.outcome.status = "returned"
                 THEN results' = r.outcome.value /\ exit_ret' = "False"
                 ELSE results' = results /\ exit_ret' = "raised"
       ELSE /\ exit_ret' = "False"
            /\ UNCHANGED <<results, call_cmds, outcome, stdout, rc, launches, tmp>>
    /\ UNCHANGED <<flavor, browser, commands, last_ret>>
    /\ UNCHANGED ctlVars
    /\ UNCHANGED shellVars

\* __exit__ / __aexit__ with an exception raised in the block
ExitError ==
    /\ phase \in {"block", "block_raised"}
    /\ phase' = "exited_error"
    /\ exit_ret' = "False"
    /\ UNCHANGED <<flavor, browser, commands, results, last_ret, call_cmds, outcome,
                   stdout, rc, launches, tmp>>
    /\ UNCHANGED ctlVars
    /\ UNCHANGED shellVars

\* command records a caller may write by hand
SampleCmds ==
    {[method |-> "click", args |-> <<"@e1">>],
     [method |-> "get", args |-> <<"title">>, kwargs |-> [json_output |-> TRUE]],
     [method |-> "reload"]}

\* the lists of at most MaxCmds such records
DirectLists == UNION {[1..l -> SampleCmds] : l \in 0..MaxCmds}

\* browser.execute_batch(cmds) called by the user, without a batch context
DirectCall ==
    /\ phase = "idle"
    /\ phase' = "called"
    /\ \E cmds \in DirectLists :
          \E env \in Envs(Len(cmds)) :
             LET r == ExecuteBatch(flavor, browser, cmds, env) IN
             /\ call_cmds' = cmds
             /\ outcome' = r.outcome
             /\ stdout' = r.stdout
             /\ rc' = r.rc
             /\ launches' = launches + r.launches
             /\ tmp' = r.tmp
    /\ UNCHANGED <<flavor, browser, commands, results, last_ret, exit_ret>>
    /\ UNCHANGED ctlVars
    /\ UNCHANGED shellVars

(***************************************************************************)
(* Single calls on a controller: construction, _run, and the controller    *)
(* as a context manager.                                                   *)
(***************************************************************************)
\* settings a controller is constructed with
Sessions == {"", "s1"}
ExecutablePaths == {"", "/opt/chrome"}
CdpPorts == {0, 9222}
Browsers ==
    [session : Sessions, executable_path : ExecutablePaths, headers : HeaderArgs,
     headed : BOOLEAN, debug : BOOLEAN, cdp_port : CdpPorts]

\* AgentBrowser(...) / AsyncAgentBrowser(...).  a is the auto_close argument:
\* TRUE when it is left at its default, FALSE for auto_close=False.  The
\* asynchronous __init__ has no such parameter.
Construct ==
    /\ pc = "init"
    /\ \E b \in Browsers, a \in BOOLEAN :
          /\ call' = [op |-> "__init__", auto_close |-> a]
          /\ IF flavor = "async" /\ ~a
             THEN /\ pc' = "init_raised"
                  /\ ret' = Raised("TypeError", Msg("unexpected keyword argument"))
                  /\ UNCHANGED <<browser, auto_close>>
             ELSE /\ pc' = "new"
                  /\ ret' = Returned(NoneVal)
                  /\ browser' = b
                  /\ auto_close' = a
    /\ UNCHANGED <<flavor, proc, invoked, cas>>
    /\ UNCHANGED tasks
    /\ UNCHANGED batchVars
    /\ UNCHANGED shellVars

\* subcommands with their arguments
RunArgs == {<<"open", "https://example.com">>, <<"get", "title">>, <<"close">>}

\* browser._run(*args, json_output=..., check=...)
Run ==
    /\ pc = "new"
    /\ \E args \in RunArgs, json_output \in BOOLEAN, check \in BOOLEAN, env \in RunEnvs :
          /\ call' = [op |-> "_run", args |-> args, json_output |-> json_output,
                      check |-> check]
          /\ proc' = env
          /\ invoked' = <<BuildCommand(browser, args, json_output)>>
          /\ ret' = RunOutcome(flavor, browser, args, json_output, check, env)
    /\ pc' = "ran"
    /\ UNCHANGED <<flavor, browser, auto_close, cas>>
    /\ UNCHANGED tasks
    /\ UNCHANGED batchVars
    /\ UNCHANGED shellVars

\* what close() does: one _run("close"), whose stdout is not looked at
CloseEnvs == {env \in RunEnvs : env.out.kind = "empty"}

\* AgentBrowser.__exit__(exc_type, exc_val, exc_tb)
SyncLeave(exc, env) ==
    /\ IF auto_close
       THEN /\ proc' = env
            /\ invoked' = <<BuildCommand(browser, <<"close">>, FALSE)>>
       ELSE /\ proc' = NoProc
            /\ invoked' = <<>>
    /\ ret' = Returned(Msg("False"))

\* AsyncAgentBrowser.__aexit__(exc_type, exc_val, exc_tb)
AsyncLeave(exc, env) ==
    LET r == AsyncRun(browser, <<"close">>, FALSE, TRUE, env) IN
    /\ proc' = env
    /\ invoked' = <<BuildCommand(browser, <<"close">>, FALSE)>>
    /\ ret' = IF r.status = "raised" THEN r ELSE Returned(Msg("False"))

\* leaving the with-block of a controller; exc tells whether the block raised
Leave ==
    /\ pc = "new"
    /\ \E exc \in BOOLEAN, env \in CloseEnvs :
          /\ call' = [op |-> "__exit__", exc |-> exc]
          /\ IF flavor = "sync" THEN SyncLeave(exc, env) ELSE AsyncLeave(exc, env)
    /\ pc' = "left"
    /\ UNCHANGED <<flavor, browser, auto_close, cas>>
    /\ UNCHANGED tasks
    /\ UNCHANGED batchVars
    /\ UNCHANGED shellVars

(***************************************************************************)
(***************************************************************************)
(* The translation of one command record into the tokens of its script     *)
(* line: the body of the loop of execute_batch.                            *)
(***************************************************************************)
\* keyword dictionaries a command record carries
RenderKwargs ==
    {[json_output |-> j] : j \in BOOLEAN}
    \cup {[json_output |-> j, interactive_only |-> i, compact |-> c] :
             j \in BOOLEAN, i \in BOOLEAN, c \in BOOLEAN}
    \cup {[interactive_only |-> i, compact |-> c] : i \in BOOLEAN, c \in BOOLEAN}

\* command records: with and without kwargs, special-cased methods and others
RenderCmds ==
    {[method |-> m, args |-> <<>>] : m \in {"snapshot", "reload"}}
    \cup {[method |-> "snapshot", args |-> <<>>, kwargs |-> k] : k \in RenderKwargs}
    \cup {[method |-> "eval", args |-> <<"document.title">>]}
    \cup {[method |-> "eval", args |-> <<"document.title">>, kwargs |-> [json_output |-> j]] :
             j \in BOOLEAN}
    \cup {[method |-> "click", args |-> <<"@e1">>]}
    \cup {[method |-> m, args |-> <<"@e1", "hello">>, kwargs |-> [json_output |-> j]] :
             m \in {"fill", "type"}, j \in BOOLEAN}
    \cup {[method |-> "get", args |-> <<"title">>, kwargs |-> [json_output |-> j]] :
             j \in BOOLEAN}

\* one pass of the loop of execute_batch: cmd_parts of a command record
Render ==
    /\ pc = "new"
    /\ \E cmd \in RenderCmds :
          /\ call' = [op |-> "cmd_parts", cmd |-> cmd]
          /\ invoked' = <<CmdParts(flavor, browser, cmd)>>
    /\ pc' = "rendered"
    /\ UNCHANGED <<flavor, browser, auto_close, proc, ret, cas>>
    /\ UNCHANGED tasks
    /\ UNCHANGED batchVars
    /\ UNCHANGED shellVars

(***************************************************************************)
(* A queuing call of a batch context next to the controller's method of    *)
(* the same name: the record the first appends, and the arguments the      *)
(* second hands to _run.                                                   *)
(***************************************************************************)
\* the queuing calls with their arguments; get_page only exists on the
\* synchronous batch context
QueueCalls(fl) ==
    {[name |-> "open", url |-> u, headers |-> h] : u \in Urls, h \in HeaderArgs}
    \cup {[name |-> n, selector |-> sel] :
             n \in {"click", "hover", "wait", "get_text"}, sel \in Selectors}
    \cup {[name |-> n, selector |-> sel, text |-> t] :
             n \in {"fill", "type"}, sel \in Selectors, t \in Texts}
    \cup {[name |-> "press", key |-> k] : k \in Keys}
    \cup {[name |-> n] : n \in {"get_title", "get_url"}}
    \cup {[name |-> "screenshot", path |-> pa] : pa \in PathArgs \cup {""}}
    \cup {[name |-> "snapshot", interactive_only |-> i, compact |-> c] :
             i \in BOOLEAN, c \in BOOLEAN}
    \cup (IF fl = "sync" THEN {[name |-> "get_page", mode |-> m] : m \in {"html", "text"}}
          ELSE {})

\* the javascript of get_page
PageScript(mode) ==
    IF mode = "html" THEN "document.documentElement.outerHTML"
    ELSE "document.body.innerText"

\* the record the queuing method appends to commands
QueuedRecord(q) ==
    CASE q.name = "open" ->
            IF q.headers # ""
            THEN [method |-> "open", args |-> <<q.url>>, kwargs |-> [headers |-> q.headers]]
            ELSE [method |-> "open", args |-> <<q.url>>]
      [] q.name \in {"click", "hover", "wait"} ->
            [method |-> q.name, args |-> <<q.selector>>]
      [] q.name \in {"fill", "type"} ->
            [method |-> q.name, args |-> <<q.selector, q.text>>]
      [] q.name = "press" -> [method |-> "press", args |-> <<q.key>>]
      [] q.name = "get_title" ->
            [method |-> "get", args |-> <<"title">>, kwargs |-> [json_output |-> TRUE]]
      [] q.name = "get_url" ->
            [method |-> "get", args |-> <<"url">>, kwargs |-> [json_output |-> TRUE]]
      [] q.name = "get_text" ->
            [method |-> "get", args |-> <<"text", q.selector>>,
             kwargs |-> [json_output |-> TRUE]]
      [] q.name = "get_page" ->
            [method |-> "eval", args |-> <<PageScript(q.mode)>>,
             kwargs |-> [json_output |-> TRUE]]
      [] q.name = "screenshot" ->
            [method |-> "screenshot", args |-> IF q.path # "" THEN <<q.path>> ELSE <<>>]
      [] q.name = "snapshot" ->
            [method |-> "snapshot", args |-> <<>>,
             kwargs |-> IF q.interactive_only \/ q.compact
                        THEN [json_output |-> TRUE,
                              interactive_only |-> q.interactive_only,
                              compact |-> q.compact]
                        ELSE [json_output |-> TRUE]]

\* the arguments the controller's own method passes to _run
DirectArgs(fl, b, q) ==
    CASE q.name = "open" ->
            <<"open", q.url>>
            \o (IF q.headers # "" \/ b.headers # ""
                THEN <<"--headers", JsonDumps(IF q.headers # "" THEN q.headers ELSE b.headers)>>
                ELSE <<>>)
      [] q.name \in {"click", "hover", "wait"} -> <<q.name, q.selector>>
      [] q.name \in {"fill", "type"} -> <<q.name, q.selector, q.text>>
      [] q.name = "press" -> <<"press", q.key>>
      [] q.name = "get_title" -> <<"get", "title">>
      [] q.name = "get_url" -> <<"get", "url">>
      [] q.name = "get_text" -> <<"get", "text", q.selector>>
      [] q.name = "get_page" -> <<"eval", PageScript(q.mode)>>
      [] q.name = "screenshot" ->
            <<"screenshot">> \o (IF q.path # "" THEN <<q.path>> ELSE <<>>)
      [] q.name = "snapshot" ->
            <<"snapshot">>
            \o (IF q.interactive_only
                THEN <<IF fl = "sync" THEN "-i" ELSE "--interactive-only">> ELSE <<>>)
            \o (IF q.compact THEN <<IF fl = "sync" THEN "-c" ELSE "--compact">> ELSE <<>>)

\* the methods that call _run with json_output=True
DirectJson(q) == q.name \in {"get_title", "get_url", "get_text", "get_page", "snapshot"}

\* the command the controller's own method runs
DirectCommand(fl, b, q) == BuildCommand(b, DirectArgs(fl, b, q), DirectJson(q))

\* a call is queued on a batch context of the controller and rendered by
\* execute_batch; next to it, the command the direct call would run
Translate ==
    /\ pc = "new"
    /\ \E q \in QueueCalls(flavor) :
          /\ call' = [op |-> "queue", q |-> q]
          /\ invoked' = <<CmdParts(flavor, browser, QueuedRecord(q)),
                          DirectCommand(flavor, browser, q)>>
    /\ pc' = "translated"
    /\ UNCHANGED <<flavor, browser, auto_close, proc, ret, cas>>
    /\ UNCHANGED tasks
    /\ UNCHANGED batchVars
    /\ UNCHANGED shellVars

(* The static session helpers: list_sessions and close_all_sessions.       *)
(* close_all_sessions is a loop of sweeps; each external invocation it     *)
(* makes is one step.                                                      *)
(***************************************************************************)
\* AgentBrowser.list_sessions() / await AsyncAgentBrowser.list_sessions()
ListSessions ==
    /\ pc \in {"init", "listed"}
    /\ \E env \in ListEnvs :
          /\ proc' = env
          /\ ret' = ListSessionsOutcome(flavor, env)
    /\ call' = [op |-> "list_sessions"]
    /\ invoked' = <<ListCmd(flavor)>>
    /\ pc' = "listed"
    /\ UNCHANGED <<flavor, browser, auto_close, cas>>
    /\ UNCHANGED tasks
    /\ UNCHANGED batchVars
    /\ UNCHANGED shellVars

\* the distinct identifiers of a listing
Names(items) == {items[i] : i \in 1..Len(items)}

\* the number of sweeps the loop header allows: range(max_retries) in the
\* synchronous controller, range(max_retries + 1) in the asynchronous one
Sweeps(fl, max_retries) == IF fl = "sync" THEN max_retries ELSE max_retries + 1

\* close_all_sessions(max_retries) is called and reaches its loop header
CasStart ==
    /\ pc = "init"
    /\ \E max_retries \in 0..MaxRetries :
          /\ call' = [op |-> "close_all_sessions", max_retries |-> max_retries]
          /\ cas' = [NoSweep EXCEPT !.max_retries = max_retries]
          /\ IF Sweeps(flavor, max_retries) = 0
             THEN pc' = "cas_done" /\ ret' = Returned(Count(0))
             ELSE pc' = "cas_list" /\ ret' = NoCall
    /\ invoked' = <<>>
    /\ UNCHANGED <<flavor, browser, auto_close, proc>>
    /\ UNCHANGED tasks
    /\ UNCHANGED batchVars
    /\ UNCHANGED shellVars

\* sessions = list_sessions(); if not sessions: break
CasList ==
    /\ pc = "cas_list"
    /\ \E env \in ListEnvs :
          LET r == ListSessionsOutcome(flavor, env) IN
          /\ proc' = env
          /\ IF r.status = "raised"
             THEN pc' = "cas_raised" /\ ret' = r /\ cas' = cas
             ELSE IF r.value.items = <<>>
             THEN /\ pc' = "cas_done"
                  /\ ret' = Returned(Count(cas.closed_count))
                  /\ cas' = [cas EXCEPT !.sessions = <<>>, !.idx = 0, !.outcomes = <<>>]
             ELSE /\ pc' = "cas_close"
                  /\ ret' = ret
                  /\ cas' = [cas EXCEPT !.sessions = r.value.items, !.idx = 1,
                                        !.outcomes = <<>>,
                                        !.listed = @ \cup Names(r.value.items),
                                        !.swept = @ + 1]
    /\ invoked' = <<ListCmd(flavor)>>
    /\ UNCHANGED <<flavor, browser, auto_close, call>>
    /\ UNCHANGED tasks
    /\ UNCHANGED batchVars
    /\ UNCHANGED shellVars

\* the except clause around one close: AgentBrowserError in the synchronous
\* sweep, Exception in the asynchronous one
Discards(fl, r) ==
    r.status = "raised" /\ (fl = "async" \/ r.errtype = "AgentBrowserError")

\* the end of a sweep with the loop variable left as it is
EndOfSweepSameAttempt(c) ==
    IF flavor = "sync"
    THEN IF c.attempt < c.max_retries - 1
         THEN pc' = "cas_recheck" /\ ret' = ret /\ cas' = c
         ELSE pc' = "cas_done" /\ ret' = Returned(Count(c.closed_count)) /\ cas' = c
    ELSE IF c.attempt < c.max_retries
         THEN pc' = "cas_list" /\ ret' = ret /\ cas' = c
         ELSE pc' = "cas_done" /\ ret' = Returned(Count(c.closed_count)) /\ cas' = c

\* the state after the last close of a sweep; the asynchronous sweep sleeps
\* retry_delay here if another pass of the loop follows
EndOfSweep(c) ==
    IF flavor = "sync"
    THEN IF c.attempt < c.max_retries - 1
         THEN pc' = "cas_recheck" /\ ret' = ret /\ cas' = c
         ELSE pc' = "cas_done" /\ ret' = Returned(Count(c.closed_count)) /\ cas' = c
    ELSE IF c.attempt < c.max_retries
         THEN /\ pc' = "cas_list" /\ ret' = ret
              /\ cas' = [c EXCEPT !.attempt = @ + 1, !.sleeps = @ + 1]
         ELSE pc' = "cas_done" /\ ret' = Returned(Count(c.closed_count)) /\ cas' = c

\* one pass of the inner loop: Browser(session=session).close() in its try
CasClose ==
    /\ pc = "cas_close"
    /\ \E env \in CloseEnvs :
          LET b == [DefaultBrowser EXCEPT !.session = cas.sessions[cas.idx]]
              r == RunOutcome(flavor, b, <<"close">>, FALSE, TRUE, env)
              c == [cas EXCEPT
                      !.closed_count = IF r.status = "returned" THEN @ + 1 ELSE @,
                      !.outcomes = Append(@, IF r.status = "returned" THEN "closed"
                                             ELSE IF Discards(flavor, r) THEN "discarded"
                                             ELSE "propagated")]
          IN  /\ proc' = env
              /\ invoked' = Append(invoked, BuildCommand(b, <<"close">>, FALSE))
              /\ IF r.status = "raised" /\ ~Discards(flavor, r)
                 THEN pc' = "cas_raised" /\ ret' = r /\ cas' = c
                 ELSE IF cas.idx < Len(cas.sessions)
                 THEN pc' = "cas_close" /\ ret' = ret /\ cas' = [c EXCEPT !.idx = @ + 1]
                 ELSE EndOfSweep(c)
    /\ UNCHANGED <<flavor, browser, auto_close, call>>
    /\ UNCHANGED tasks
    /\ UNCHANGED batchVars
    /\ UNCHANGED shellVars

\* if attempt < max_retries - 1 and AgentBrowser.list_sessions(): sleep
CasRecheck ==
    /\ pc = "cas_recheck"
    /\ flavor = "sync"
    /\ \E env \in ListEnvs :
          LET r == SyncListSessions(env) IN
          /\ proc' = env
          /\ IF r.status = "raised"
             THEN pc' = "cas_raised" /\ ret' = r /\ cas' = cas
             ELSE /\ pc' = "cas_list" /\ ret' = ret
                  /\ cas' = [cas EXCEPT !.attempt = @ + 1,
                                        !.sleeps = IF r.value.items # <<>> THEN @ + 1 ELSE @,
                                        !.listed = @ \cup Names(r.value.items)]
    /\ invoked' = Append(invoked, ListCmd(flavor))
    /\ UNCHANGED <<flavor, browser, auto_close, call>>
    /\ UNCHANGED tasks
    /\ UNCHANGED batchVars
    /\ UNCHANGED shellVars

Next ==
    \/ Batch
    \/ Open \/ Click \/ Fill \/ Type \/ Press \/ Hover \/ Wait
    \/ GetTitle \/ GetUrl \/ GetText \/ GetPage \/ Screenshot \/ Snapshot
    \/ ExitNormal \/ ExitError \/ DirectCall

Spec == Init /\ [][Next]_vars

(***************************************************************************)
(* One batch context used for more than one with-block.                    *)
(***************************************************************************)
\* __enter__ with the queue emptied first
ReenterCleared ==
    /\ phase \in {"exited", "exited_error"}
    /\ launches < MaxRuns
    /\ phase' = "block"
    /\ commands' = <<>>
    /\ UNCHANGED <<flavor, browser, results, last_ret, exit_ret, call_cmds,
                   outcome, stdout, rc, launches, tmp>>
    /\ UNCHANGED ctlVars
    /\ UNCHANGED shellVars

\* __enter__ / __aenter__ on a context whose with-block has ended: return self
Reenter ==
    /\ phase \in {"exited", "exited_error"}
    /\ launches < MaxRuns
    /\ phase' = "block"
    /\ UNCHANGED <<flavor, browser, commands, results, last_ret, exit_ret, call_cmds,
                   outcome, stdout, rc, launches, tmp>>
    /\ UNCHANGED ctlVars
    /\ UNCHANGED shellVars

ReuseNext ==
    \/ Batch
    \/ Click \/ GetTitle \/ GetPage
    \/ ExitNormal \/ ExitError \/ Reenter

ReuseSpec == Init /\ [][ReuseNext]_vars

\* single calls: nothing is constructed yet, no batch is ever started
CtlInitial ==
    /\ flavor \in Flavors
    /\ browser = DefaultBrowser
    /\ BatchInit
    /\ CtlInit("init")
    /\ ShellInit

CtlNext ==
    \/ Construct \/ Run \/ Leave \/ Render \/ Translate
    \/ ListSessions \/ CasStart \/ CasList \/ CasClose \/ CasRecheck

CtlSpec == CtlInitial /\ [][CtlNext]_vars

\* every external invocation of close_all_sessions returns: a step of the
\* loop that is waiting for one is eventually taken
CtlFairSpec ==
    CtlSpec /\ WF_vars(CasList) /\ WF_vars(CasClose) /\ WF_vars(CasRecheck)

(***************************************************************************)
(* Several tasks of one event loop awaiting methods of the same            *)
(* AsyncAgentBrowser.  A task runs until it awaits; _run awaits twice:     *)
(* create_subprocess_exec, which starts the process, and communicate,      *)
(* which returns when the process has exited.  Between the two the task    *)
(* is suspended and the event loop runs any other task.                    *)
(***************************************************************************)
Tasks == 1..MaxTasks

\* the external processes of the controller that have started and not exited
InFlight == {t \in Tasks : tasks[t].pc = "communicate"}

\* task t calls browser._run(*args, json_output=...) and runs to the await
\* of communicate: the process is started, or cannot be
TaskSpawn(t) ==
    /\ tasks[t].pc = "idle"
    /\ \E args \in RunArgs, json_output \in BOOLEAN, launch \in {"ok", "failed"} :
          LET c == [op |-> "_run", args |-> args, json_output |-> json_output,
                    check |-> TRUE]
              cmd == BuildCommand(browser, args, json_output)
              failed == [launch |-> "failed", rc |-> NoRc, out |-> Out("empty")]
          IN  tasks' = [tasks EXCEPT ![t] =
                 IF launch = "failed"
                 THEN [pc |-> "done", call |-> c, cmd |-> cmd,
                       ret |-> AsyncRun(browser, args, json_output, TRUE, failed)]
                 ELSE [pc |-> "communicate", call |-> c, cmd |-> cmd, ret |-> NoCall]]
    /\ UNCHANGED <<flavor, browser, auto_close, pc, call, proc, ret, invoked, cas>>
    /\ UNCHANGED batchVars
    /\ UNCHANGED shellVars

\* the process of task t exits; communicate returns and _run runs to its end
TaskReap(t) ==
    /\ tasks[t].pc = "communicate"
    /\ \E env \in {e \in RunEnvs : e.launch = "ok"} :
          tasks' = [tasks EXCEPT ![t] =
             [@ EXCEPT !.pc = "done",
                       !.ret = AsyncRun(browser, tasks[t].call.args,
                                        tasks[t].call.json_output, TRUE, env)]]
    /\ UNCHANGED <<flavor, browser, auto_close, pc, call, proc, ret, invoked, cas>>
    /\ UNCHANGED batchVars
    /\ UNCHANGED shellVars

Spawn == \E t \in Tasks : TaskSpawn(t)
Reap == \E t \in Tasks : TaskReap(t)

\* one AsyncAgentBrowser with every argument at its default
TaskInit ==
    /\ flavor = "async"
    /\ browser = DefaultBrowser
    /\ BatchInit
    /\ CtlInit("new")
    /\ ShellInit

TaskNext == Spawn \/ Reap

TaskSpec == TaskInit /\ [][TaskNext]_vars


(***************************************************************************)
(* execute_batch step by step: the script is written and bash is started,  *)
(* bash runs the commands it reads one at a time, execute_batch collects   *)
(* the exit code.                                                          *)
(***************************************************************************)
\* argument texts a caller fills a field with
ShellTexts == {"hello", "two words", "tab\there", "say\"hi", "line1\nline2"}

\* commands a caller queues
ShellCmds ==
    {[method |-> "fill", args |-> <<"@e1", t>>] : t \in ShellTexts}
    \cup {[method |-> "open", args |-> <<"https://example.com">>,
           kwargs |-> [headers |-> "H"]]}

\* the non-empty queues of at most MaxCmds commands
ShellLists == UNION {[1..l -> ShellCmds] : l \in 1..MaxCmds}

\* execute_batch(cmds) up to subprocess.run / create_subprocess_exec: the
\* script is built and written to the temporary file and bash starts on it,
\* or the operating system refuses one of the two
WriteScript ==
    /\ phase = "idle"
    /\ sh.pc = "none"
    /\ \E cmds \in ShellLists :
          /\ call_cmds' = cmds
          /\ \/ \E env \in OsFailures :
                   LET r == ExecuteBatch(flavor, browser, cmds, env) IN
                   /\ phase' = "called"
                   /\ outcome' = r.outcome
                   /\ launches' = launches + r.launches
                   /\ tmp' = r.tmp
                   /\ script' = IF env.write = "ok"
                                THEN ScriptText(flavor, browser, cmds) ELSE <<>>
                   /\ sh' = sh
             \/ LET text == ScriptText(flavor, browser, cmds)
                    read == ShellCommands(text)
                IN  /\ phase' = "running"
                    /\ outcome' = outcome
                    /\ launches' = launches + 1
                    /\ tmp' = "present"
                    /\ script' = text
                    /\ sh' = [NoShell EXCEPT !.pc = "run", !.ok = read.ok,
                                             !.cmds = read.cmds, !.next = 1]
    /\ UNCHANGED <<flavor, browser, commands, results, last_ret, exit_ret, stdout, rc>>
    /\ UNCHANGED ctlVars

\* the first line of the script is a comment to bash
IsComment(words) == words[1] = Spell("#!/bin/bash")
\* set -e
IsSetE(words) == words = <<<<"set">>, <<"-e">>>>
\* an invocation of the tool
IsTool(words) == words[1] = <<"agent-browser">>

\* exit code of a command bash cannot find
NotFound == 127
\* exit code of bash on a syntax error
SyntaxError == 2

\* bash runs the next command it read.  The tool exits with a code of its
\* own choosing; any other word is not a command.  Under errexit a non-zero
\* status ends the script with that status.
BashStep ==
    /\ sh.pc = "run"
    /\ sh.next <= Len(sh.cmds)
    /\ LET words == sh.cmds[sh.next] IN
       \E c \in ExitCodes :
          LET status == IF IsComment(words) \/ IsSetE(words) THEN 0
                        ELSE IF IsTool(words) THEN c ELSE NotFound
              ran == [sh EXCEPT
                        !.next = @ + 1,
                        !.status = status,
                        !.errexit = @ \/ IsSetE(words),
                        !.runs = IF ~IsComment(words) /\ ~IsSetE(words) /\ IsTool(words)
                                 THEN Append(@, [words |-> Tail(words), code |-> c])
                                 ELSE @]
          IN  sh' = IF status # 0 /\ sh.errexit
                    THEN [ran EXCEPT !.pc = "done", !.rc = status]
                    ELSE ran
    /\ UNCHANGED <<script, flavor, browser>>
    /\ UNCHANGED batchVars
    /\ UNCHANGED ctlVars

\* bash has run every command it could read: it exits with the status of
\* the last one, or reports the unterminated quote
BashEnd ==
    /\ sh.pc = "run"
    /\ sh.next > Len(sh.cmds)
    /\ sh' = [sh EXCEPT !.pc = "done",
                        !.rc = IF sh.ok THEN sh.status ELSE SyntaxError]
    /\ UNCHANGED <<script, flavor, browser>>
    /\ UNCHANGED batchVars
    /\ UNCHANGED ctlVars

\* execute_batch from the return of the subprocess on: the finally clause
\* removes the file, the exit code decides between raising and parsing
Collect ==
    /\ phase = "running"
    /\ sh.pc = "done"
    /\ \E u \in {"ok", "failed"} :
          LET env == [write |-> "ok", launch |-> "ok", rc |-> sh.rc, stdout |-> <<>>,
                      unlink |-> u]
              r == ExecuteBatch(flavor, browser, call_cmds, env)
          IN  /\ outcome' = r.outcome
              /\ stdout' = r.stdout
              /\ rc' = r.rc
              /\ tmp' = r.tmp
    /\ phase' = "called"
    /\ UNCHANGED <<flavor, browser, commands, results, last_ret, exit_ret,
                   call_cmds, launches>>
    /\ UNCHANGED ctlVars
    /\ UNCHANGED shellVars

ShellNext == WriteScript \/ BashStep \/ BashEnd \/ Collect

ShellSpec == Init /\ [][ShellNext]_vars

(***************************************************************************)
(* Properties.                                                             *)
(***************************************************************************)
\* execute_batch has been called and has returned a list
BatchReturned == outcome.status = "returned"
\* execute_batch has been called and has raised
BatchRaised == outcome.status = "raised"
\* the command at position i of the executed list carries json_output = True
JsonRequested(i) == Get(Get(call_cmds[i], "kwargs", <<>>), "json_output", FALSE)
\* the kinds of the stdout lines, in order
Kinds(out) == [i \in 1..Len(out) |-> out[i].kind]

\* C1: whenever the synchronous execute_batch returns for a queue of N >= 1
\* commands, the returned list has exactly N entries, whatever the script printed.
C1_SyncResultLength ==
    (flavor = "sync" /\ Len(call_cmds) >= 1 /\ BatchReturned)
        => Len(outcome.value) = Len(call_cmds)

\* a synchronous batch of two commands returned although the script printed
\* a single line
C1_Witness ==
    /\ flavor = "sync" /\ BatchReturned
    /\ Len(call_cmds) = 2 /\ Len(stdout) = 1

\* C2: whenever the asynchronous execute_batch returns for a queue of N
\* commands, the returned list has exactly N entries, one per queued command.
C2_AsyncResultLength ==
    (flavor = "async" /\ BatchReturned) => Len(outcome.value) = Len(call_cmds)

\* some stdout line is an envelope reporting success = false
HasFailedEnvelope(out) == \E i \in 1..Len(out) : out[i].kind = "envFail"
\* the first such line
FirstFailed(out) ==
    out[CHOOSE i \in 1..Len(out) :
            /\ out[i].kind = "envFail"
            /\ \A j \in 1..(i - 1) : out[j].kind # "envFail"]

\* C3: whenever the batch output holds an envelope line reporting
\* success = false, the call raises AgentBrowserError carrying that envelope's
\* error message, and the context's results keep their value (the empty list).
C3_FailedEnvelopeMessage ==
    HasFailedEnvelope(stdout)
        => /\ BatchRaised
           /\ outcome.errtype = "AgentBrowserError"
           /\ outcome.errmsg = ErrorOf(FirstFailed(stdout))
           /\ results = <<>>

\* C4: a context left through an error has launched nothing and created no
\* script, however many commands were queued; results is still empty and
\* __exit__ returned False.
C4_ErrorExitRunsNothing ==
    phase = "exited_error"
        => /\ launches = 0
           /\ outcome = NoCall
           /\ tmp = "absent"
           /\ results = <<>>
           /\ exit_ret = "False"

\* a context with two queued commands was left through an error
C4_Witness == phase = "exited_error" /\ Len(commands) = 2

\* C5: a context left normally with nothing queued has launched nothing and
\* its results is the empty list.
C5_EmptyExitRunsNothing ==
    (phase = "exited" /\ commands = <<>>)
        => /\ launches = 0
           /\ outcome = NoCall
           /\ tmp = "absent"
           /\ results = <<>>
           /\ exit_ret = "False"

\* an asynchronous context was left normally with nothing queued
C5_Witness == flavor = "async" /\ phase = "exited" /\ commands = <<>>

\* C6: execute_batch called with the empty list returns the empty list, launches
\* no subprocess and creates no temporary script, in both controllers.
C6_EmptyDirectCall ==
    (phase = "called" /\ call_cmds = <<>>)
        => /\ outcome = Returned(<<>>)
           /\ launches = 0
           /\ tmp = "absent"

\* C7: every queuing call that returns gives back the context itself and
\* appends exactly one record at the tail of commands, leaving the earlier
\* records and their order as they were.
C7_QueuingAppends ==
    [][(phase = "block" /\ phase' = "block")
        => /\ last_ret' = "self"
           /\ Len(commands') = Len(commands) + 1
           /\ SubSeq(commands', 1, Len(commands)) = commands]_vars

\* two queuing calls of different methods have returned
C7_Witness ==
    /\ phase = "block" /\ last_ret = "self"
    /\ Len(commands) = 2 /\ commands[1].method # commands[2].method

\* the command at position i of the executed list is rendered with --json
JsonRendered(i) ==
    LET parts == CmdParts(flavor, browser, call_cmds[i])
    IN  \E k \in 1..Len(parts) : parts[k] = "--json"
\* the envelope lines of a stdout, in order
EnvelopeLines(out) == SelectSeq(out, HasSuccess)
\* the external tool's contract: each command rendered with --json prints
\* exactly one line, its envelope; every other line comes from a command
\* rendered without --json and is no envelope
ToolContract ==
    /\ Len(EnvelopeLines(stdout))
         = Cardinality({i \in 1..Len(call_cmds) : JsonRendered(i)})
    /\ (\A i \in 1..Len(call_cmds) : JsonRendered(i))
         => Len(EnvelopeLines(stdout)) = Len(stdout)
\* under that contract, the envelope printed by the command at position i
OwnEnvelope(i) ==
    EnvelopeLines(stdout)[Cardinality({j \in 1..i : JsonRendered(j)})]

\* C8: in a successful batch whose output follows the tool's contract, the
\* result slot at the queue position of every structured-output command holds
\* the data payload of that command's own envelope.
C8_SlotHoldsOwnPayload ==
    (BatchReturned /\ Len(call_cmds) >= 1 /\ ToolContract)
        => \A i \in 1..Len(call_cmds) :
              (JsonRequested(i) /\ JsonRendered(i))
                 => /\ i <= Len(outcome.value)
                    /\ outcome.value[i] = DataOf(OwnEnvelope(i))

\* the number of commands among the first i that requested structured output
JsonRank(i) == Cardinality({j \in 1..i : JsonRequested(j)})

\* C9: when the synchronous batch returns, the payload of the k-th envelope
\* line of stdout sits in the slot of the k-th command that requested
\* structured output, and the slot of every command that did not request it
\* holds None, whatever was printed.
C9_SyncSlotAssignment ==
    (flavor = "sync" /\ BatchReturned /\ Len(call_cmds) >= 1)
        => /\ Len(outcome.value) = Len(call_cmds)
           /\ \A i \in 1..Len(call_cmds) :
                 IF JsonRequested(i)
                 THEN JsonRank(i) <= Len(EnvelopeLines(stdout))
                        => outcome.value[i] = DataOf(EnvelopeLines(stdout)[JsonRank(i)])
                 ELSE outcome.value[i] = NoneVal

\* a synchronous batch of two structured-output commands returned after the
\* script printed two success envelopes
C9_Witness ==
    /\ flavor = "sync" /\ BatchReturned /\ Len(call_cmds) = 2
    /\ JsonRequested(1) /\ JsonRequested(2)
    /\ Kinds(stdout) = <<"envOK", "envOK">>

\* C10: once execute_batch has returned or raised, a temporary script that
\* was created is removed.
C10_TmpRemoved ==
    (outcome.status # "none" /\ tmp # "absent") => tmp = "removed"

\* C11: whenever the batch script exits with a non-zero code, execute_batch
\* raises AgentBrowserError whose message is the captured error stream; the
\* outcome does not depend on stdout (it is never parsed), no list is
\* returned and a context exit leaves results as it was.
C11_NonZeroExitRaises ==
    (rc # NoRc /\ rc # 0)
        => /\ outcome = Raised("AgentBrowserError", Msg("Batch execution failed: stderr"))
           /\ launches = 1
           /\ (phase = "exited" => results = <<>> /\ exit_ret = "raised")

\* C12: every failure of a single-command call reaches the caller as
\* AgentBrowserError and as no other exception type, whether the launch
\* failed, the process exited non-zero, the envelope was malformed or the
\* envelope reported success = false.
C12_FailuresNormalized ==
    (pc = "ran" /\ ret.status = "raised") => ret.errtype = "AgentBrowserError"

\* _run has been called with json_output = True and check at its default
JsonRunDone == pc = "ran" /\ call.json_output /\ call.check
\* the process was launched and printed an envelope of the given kind
Printed(kind) == proc.launch = "ok" /\ proc.out.kind = kind

\* C13 as stated: a _run with structured output requested makes exactly one
\* external invocation; it returns the envelope's data exactly when the
\* process exits 0 with a success envelope, and whenever the envelope reports
\* success = false it raises AgentBrowserError carrying the envelope's error.
C13_RunEnvelope ==
    JsonRunDone
        => /\ Len(invoked) = 1
           /\ (ret = Returned(DataOf(proc.out))) <=> (Printed("envOK") /\ proc.rc = 0)
           /\ Printed("envFail") => ret = Raised("AgentBrowserError", ErrorOf(proc.out))

\* C13 amended: the same, with the error of a failed envelope carried only
\* when the process exits 0; a failed envelope never yields a returned value,
\* whatever the exit code.
C13_RunEnvelopeExitZero ==
    JsonRunDone
        => /\ Len(invoked) = 1
           /\ (ret = Returned(DataOf(proc.out))) <=> (Printed("envOK") /\ proc.rc = 0)
           /\ (Printed("envFail") /\ proc.rc = 0)
                 => ret = Raised("AgentBrowserError", ErrorOf(proc.out))
           /\ Printed("envFail") => ret.status = "raised"

\* a _run with structured output whose process exited 0 and printed a
\* failed envelope
C13_Witness == JsonRunDone /\ Printed("envFail") /\ proc.rc = 0 /\ ret.status = "raised"

\* the listing just made exited 0 and printed the success envelope whose
\* data is the empty list: no session is active
ListedNone ==
    /\ proc'.launch = "ok" /\ proc'.rc = 0
    /\ proc'.out = [kind |-> "envList", sessions |-> <<>>]

\* C14: when close_all_sessions finds on its first listing that no session is
\* active, it makes no external invocation besides that listing, closes
\* nothing and returns the count zero.
C14_NoSessionsNoClose ==
    [][(pc = "cas_list" /\ cas.attempt = 0 /\ ListedNone)
        => /\ pc' = "cas_done"
           /\ ret' = Returned(Count(0))
           /\ invoked' = <<ListCmd(flavor)>>]_vars

\* the command line that closes the given session
CloseCmd(name) == <<"agent-browser", "--session", name, "close">>

\* C15: within a sweep every close step, however it ends, launches the close
\* of the session at the current position of the listing and moves on to the
\* next position; no failure of a close leaves close_all_sessions.
C15_SweepCoversListing ==
    [][pc = "cas_close"
        => /\ pc' # "cas_raised"
           /\ invoked'[Len(invoked')] = CloseCmd(cas.sessions[cas.idx])
           /\ cas.idx < Len(cas.sessions)
                 => (pc' = "cas_close" /\ cas'.idx = cas.idx + 1)]_vars

\* C16: list_sessions returns a list and never raises: the identifiers of the
\* envelope's data when the listing exits 0 with a success envelope, the
\* empty list on a non-zero exit, empty output, malformed JSON or a failed
\* envelope; every call launches the listing anew.
C16_ListSessionsTotal ==
    (pc = "listed" /\ proc.launch = "ok"
       /\ (proc.rc # 0 \/ proc.out.kind \in {"envList", "empty", "text", "envFail"}))
        => /\ invoked = <<ListCmd(flavor)>>
           /\ ret.status = "returned"
           /\ ret.value = ListVal(IF proc.rc = 0 /\ proc.out.kind = "envList"
                                  THEN proc.out.sessions ELSE <<>>)

\* the global options in the order of the invocation shape
OptionOrder ==
    <<"--session", "--executable-path", "--headed", "--debug", "--cdp", "--json">>
\* the setting that switches an option on
OptionSet(o) ==
    CASE o = "--session" -> browser.session # ""
      [] o = "--executable-path" -> browser.executable_path # ""
      [] o = "--headed" -> browser.headed
      [] o = "--debug" -> browser.debug
      [] o = "--cdp" -> browser.cdp_port # 0
      [] o = "--json" -> call.json_output
\* the value that follows an option, if it takes one
OptionValue(o) ==
    CASE o = "--session" -> <<browser.session>>
      [] o = "--executable-path" -> <<browser.executable_path>>
      [] o = "--cdp" -> IF browser.cdp_port = 9222 THEN <<"9222">> ELSE <<"0">>
      [] OTHER -> <<>>
\* the positions of a token in a command line
Positions(cmd, o) == {i \in 1..Len(cmd) : cmd[i] = o}
\* the number of tokens the options that are switched on take up
OptionTokens ==
    LET on(k) == IF OptionSet(OptionOrder[k]) THEN 1 + Len(OptionValue(OptionOrder[k])) ELSE 0
    IN  on(1) + on(2) + on(3) + on(4) + on(5) + on(6)

\* C17: the command line _run launches starts with the tool name and ends
\* with the subcommand and its arguments as given; between them stand the
\* global options, each exactly when its setting (or json_output) is set,
\* each followed by its value if it takes one, in the fixed order --session,
\* --executable-path, --headed, --debug, --cdp, --json, and nothing else.
C17_BuildCommandShape ==
    pc = "ran"
        => LET cmd == invoked[1]
               n == Len(cmd) - Len(call.args)
               pre == SubSeq(cmd, 1, n)
           IN  /\ n = 1 + OptionTokens
               /\ pre[1] = "agent-browser"
               /\ SubSeq(cmd, n + 1, Len(cmd)) = call.args
               /\ \A k \in 1..Len(OptionOrder) :
                     LET o == OptionOrder[k] IN
                     IF OptionSet(o)
                     THEN /\ Cardinality(Positions(pre, o)) = 1
                          /\ \A i \in Positions(pre, o) :
                                /\ SubSeq(pre, i + 1, i + Len(OptionValue(o))) = OptionValue(o)
                                /\ \A j \in 1..(k - 1) :
                                      \A h \in Positions(pre, OptionOrder[j]) : h < i
                     ELSE Positions(pre, o) = {}

\* a _run on a controller with every setting set and json_output requested
C17_Witness ==
    /\ pc = "ran" /\ call.json_output
    /\ browser.session # "" /\ browser.executable_path # ""
    /\ browser.headed /\ browser.debug /\ browser.cdp_port # 0
    /\ Len(invoked[1]) = 10 + Len(call.args)

\* C18: a controller can be created with auto_close left at its default or
\* set to False; leaving its context launches close exactly once in the
\* first case and not at all in the second, and the exit returns False in
\* both, whatever close did and whether or not the block raised.
C18_ExitClosesPerAutoClose ==
    /\ pc # "init_raised"
    /\ pc = "left"
         => /\ invoked = IF auto_close
                         THEN <<BuildCommand(browser, <<"close">>, FALSE)>> ELSE <<>>
            /\ ret = Returned(Msg("False"))

\* the words the external tool must receive for the k-th queued command
SentWords(k) ==
    LET parts == CmdParts(flavor, browser, call_cmds[k]) IN
    [j \in 1..Len(parts) |-> Spell(parts[j])]

\* the queue holds no token with a line break
OneLineTokens ==
    \A k \in 1..Len(call_cmds) :
       \A j \in 1..Len(call_cmds[k].args) :
          \A i \in 1..Len(Spell(call_cmds[k].args[j])) :
             Spell(call_cmds[k].args[j])[i] # "\n"

\* C19: for tokens made of ordinary characters, spaces, tabs and double
\* quotes, the serialized headers of a queued open included, bash reads from
\* the line of every queued command exactly the token list that was built.
C19_TokensRoundTrip ==
    (sh.pc # "none" /\ OneLineTokens)
       => /\ sh.ok
          /\ SubSeq(sh.cmds, 3, Len(sh.cmds)) =
                [k \in 1..Len(call_cmds) |-> SentWords(k)]

\* C20: the script is the fail-fast preamble followed by exactly one command
\* per queued command in queue order, each an invocation of the tool; no
\* invocation follows one that exited non-zero, and a batch call in which an
\* invocation exited non-zero raises.
C20_OneLinePerCommandFailFast ==
    /\ sh.pc # "none"
         => /\ sh.ok
            /\ Len(sh.cmds) = 2 + Len(call_cmds)
            /\ IsComment(sh.cmds[1]) /\ IsSetE(sh.cmds[2])
            /\ \A k \in 1..Len(call_cmds) :
                  /\ IsTool(sh.cmds[k + 2])
                  /\ sh.cmds[k + 2][2] = <<call_cmds[k].method>>
    /\ \A i \in 1..Len(sh.runs) : sh.runs[i].code # 0 => i = Len(sh.runs)
    /\ (phase = "called" /\ \E i \in 1..Len(sh.runs) : sh.runs[i].code # 0)
         => outcome.status = "raised"

\* the keyword of a rendered command record, FALSE when it is absent
Keyword(name) == Get(Get(call.cmd, "kwargs", <<>>), name, FALSE)
\* the rendered line holds the token
HasToken(tok) == \E i \in 1..Len(invoked[1]) : invoked[1][i] = tok

\* C21: a queued eval and a queued snapshot are rendered with --json whether
\* or not the record carries json_output; a snapshot line holds the
\* interactive-only flag and the compact flag exactly when the keyword of
\* that name is true.
C21_EvalSnapshotAlwaysJson ==
    (pc = "rendered" /\ call.cmd.method \in {"eval", "snapshot"})
       => /\ HasToken("--json")
          /\ call.cmd.method = "snapshot"
                => /\ (HasToken("-i") \/ HasToken("--interactive-only"))
                         <=> Keyword("interactive_only")
                   /\ (HasToken("-c") \/ HasToken("--compact")) <=> Keyword("compact")

\* methods no branch of either loop names
DefaultMethods == {"click", "fill", "type", "reload"}

\* C22: for a method that is not special-cased, the line ends with the
\* method and its arguments as given and holds --json exactly when the
\* record's json_output keyword is true.
C22_DefaultTranslation ==
    (pc = "rendered" /\ call.cmd.method \in DefaultMethods)
       => LET toks == invoked[1]
              tail == <<call.cmd.method>> \o call.cmd.args
          IN  /\ Len(toks) >= Len(tail)
              /\ SubSeq(toks, Len(toks) - Len(tail) + 1, Len(toks)) = tail
              /\ HasToken("--json") <=> Keyword("json_output")

\* the environment of the last call with the removal of the script succeeding
CleanupSucceeds ==
    [write |-> "ok", launch |-> IF rc = NoRc THEN "failed" ELSE "ok",
     rc |-> rc, stdout |-> stdout]

\* C23: when removing the temporary script fails, the batch call ends as it
\* would have ended with the removal succeeding: the same list is returned,
\* or the same error is raised.
C23_CleanupErrorSwallowed ==
    (tmp = "present" /\ launches > 0 /\ sh.pc = "none")
       => outcome = ExecuteBatch(flavor, browser, call_cmds, CleanupSucceeds).outcome

\* C24: of the external processes started by one AsyncAgentBrowser, at most
\* one is in flight at any time, however the caller's tasks are scheduled.
C24_OneProcessInFlight == Cardinality(InFlight) <= 1

\* close_all_sessions is in its loop
CasRunning == pc \in {"cas_list", "cas_close", "cas_recheck"}
\* close_all_sessions has returned or raised
CasEnded == pc \in {"cas_done", "cas_raised"}

\* this step is a listing of close_all_sessions that came back empty
EmptyListing ==
    /\ pc \in {"cas_list", "cas_recheck"}
    /\ pc' # pc
    /\ ListSessionsOutcome(flavor, proc') = Returned(ListVal(<<>>))

\* C25 as stated: when every invocation returns, close_all_sessions ends
\* after at most max_retries + 1 sweeps, every delay lies between two sweeps,
\* and any listing that comes back empty ends the call.
C25_SweepsBoundedAndEndStated ==
    /\ [](CasRunning \/ CasEnded => cas.swept <= cas.max_retries + 1)
    /\ [](CasEnded => cas.sleeps = 0 \/ cas.sleeps < cas.swept)
    /\ [][EmptyListing => pc' = "cas_done"]_vars
    /\ (CasRunning ~> CasEnded)

\* C25: when every invocation returns, close_all_sessions ends, even if the
\* sessions never leave the listing.  It makes at most max_retries + 1
\* sweeps.  Every delay comes after a sweep that is not the last pass the
\* loop allows and before the listing of the next pass, so there are at most
\* max_retries delays and never more delays than sweeps.  A listing at the
\* head of a pass that comes back empty ends the call at once with the count
\* reached so far; the listing the synchronous helper makes after a sweep
\* only decides the delay: empty, the next pass starts without one.
C25_SweepsBoundedAndEnd ==
    /\ [](CasRunning \/ CasEnded
            => /\ cas.attempt <= cas.max_retries
               /\ cas.swept <= cas.max_retries + 1
               /\ cas.sleeps <= cas.attempt
               /\ cas.sleeps <= cas.swept)
    /\ [][(EmptyListing /\ pc = "cas_list")
            => /\ pc' = "cas_done"
               /\ ret' = Returned(Count(cas.closed_count))]_vars
    /\ [][(EmptyListing /\ pc = "cas_recheck")
            => /\ pc' = "cas_list"
               /\ cas'.sleeps = cas.sleeps
               /\ cas'.attempt = cas.attempt + 1]_vars
    /\ [][cas'.sleeps # cas.sleeps
            => /\ cas'.sleeps = cas.sleeps + 1
               /\ cas.swept = cas.attempt + 1
               /\ cas'.attempt = cas.attempt + 1
               /\ pc' = "cas_list"]_vars
    /\ (CasRunning ~> CasEnded)

\* the call returned after the last sweep the loop allows, with delays before
\* every retry, the sessions being listed to the end
C25_Witness ==
    /\ pc = "cas_done" /\ cas.max_retries = MaxRetries
    /\ cas.sleeps = cas.attempt /\ cas.attempt >= 1
    /\ cas.attempt + 1 = Sweeps(flavor, cas.max_retries)
    /\ cas.swept = cas.attempt + 1
    /\ Len(cas.sessions) = MaxSessions

\* C26: the count close_all_sessions returns is at most the number of
\* distinct session identifiers its listings reported during the call.
C26_CountAtMostListed ==
    (pc = "cas_done" /\ call.op = "close_all_sessions")
       => ret.value.id <= Cardinality(cas.listed)

\* C27: for every queuing method and every configuration of the controller,
\* the tokens rendered for the queued command are the command the
\* controller's method of the same name runs for the same arguments.
C27_BatchLineEqualsDirect ==
    pc = "translated" => invoked[1] = invoked[2]


\* every command of the call requests structured output
AllStructured(cmds) == Len(JsonIndices(cmds, 1)) = Len(cmds)

\* the script printed exactly one success envelope per command and exited 0
OneEnvelopePerCommand ==
    /\ phase \in {"called", "exited"}
    /\ launches > 0
    /\ rc = 0
    /\ call_cmds # <<>>
    /\ AllStructured(call_cmds)
    /\ Len(stdout) = Len(call_cmds)
    /\ \A i \in 1..Len(stdout) : SuccessTrue(stdout[i])

\* the payloads of the lines of stdout, in order
Payloads == [i \in 1..Len(stdout) |-> DataOf(stdout[i])]

\* C28: when every command requests structured output and the script printed
\* exactly one success envelope per command, the synchronous and the
\* asynchronous parser return the same list, the payloads in queue order,
\* and that list is what a returning call returns.
C28_ParsersAgree ==
    OneEnvelopePerCommand =>
        /\ ParseBatchResults(stdout, JsonIndices(call_cmds, 1), Len(call_cmds))
              = AsyncParseResults(stdout)
        /\ AsyncParseResults(stdout) = Returned(Payloads)
        /\ outcome.status = "returned" => outcome.value = Payloads

\* a call on two structured-output commands returned their two payloads
C28_Witness ==
    /\ OneEnvelopePerCommand
    /\ Len(call_cmds) = 2
    /\ outcome.status = "returned"
    /\ outcome.value = <<DataOf(stdout[1]), DataOf(stdout[2])>>


\* the synchronous script exited 0 and printed no failure envelope, but the
\* number of its envelope lines is not the number of structured-output
\* commands
SyncCountMismatch ==
    /\ flavor = "sync"
    /\ phase \in {"called", "exited"}
    /\ launches > 0
    /\ rc = 0
    /\ call_cmds # <<>>
    /\ \A i \in 1..Len(stdout) : HasSuccess(stdout[i]) => SuccessTrue(stdout[i])
    /\ Len(EnvelopeLines(stdout)) # Len(JsonIndices(call_cmds, 1))

\* C29: in the synchronous batch path a mismatch between the number of
\* envelope lines and the number of structured-output commands never raises:
\* the batch returns a list of length N in which the unmatched trailing
\* structured-output commands hold None and surplus payloads are dropped.
C29_CountMismatchReturns ==
    SyncCountMismatch =>
        /\ outcome.status = "returned"
        /\ Len(outcome.value) = Len(call_cmds)
        /\ \A i \in 1..Len(call_cmds) :
              outcome.value[i] =
                 IF JsonRequested(i) /\ JsonRank(i) <= Len(EnvelopeLines(stdout))
                 THEN DataOf(EnvelopeLines(stdout)[JsonRank(i)])
                 ELSE NoneVal


\* a is the beginning of b
IsPrefix(a, b) == Len(a) <= Len(b) /\ SubSeq(b, 1, Len(a)) = a
\* this step is an exit of the with-block
ExitStep == phase \in {"block", "block_raised"} /\ phase' \in {"exited", "exited_error"}

\* C30: no exit of a batch context changes commands, whether it is normal,
\* follows an error in the block or runs a failing execution; results changes
\* only in an exit whose execution returned, to the list it returned; and a
\* context that is entered and left again executes its whole queue, which
\* still begins with every command executed before.
C30_ExitKeepsCommands ==
    /\ [][ExitStep => /\ commands' = commands
                      /\ results' # results
                           => /\ phase' = "exited"
                              /\ outcome'.status = "returned"
                              /\ results' = outcome'.value]_vars
    /\ [][(ExitStep /\ phase' = "exited" /\ commands # <<>>)
             => call_cmds' = commands']_vars
    /\ [][(phase \in {"exited", "exited_error"} /\ phase' = "block")
             => commands' = commands /\ results' = results]_vars
    /\ [](IsPrefix(call_cmds, commands))

\* a context with two commands was executed, entered again and left again:
\* its second execution ran both commands again
C30_Witness ==
    /\ phase = "exited"
    /\ launches = 2
    /\ Len(commands) = 2
    /\ call_cmds = commands
    /\ outcome.status = "returned"
    /\ results = outcome.value

====
